---- MODULE Spec2Model ----
(***************************************************************************)
(* Model of app/app.py: the Dash dashboard that joins Census tract         *)
(* geometry with ACS attributes, classifies household income into          *)
(* quantile buckets, and builds the NOAA disaster tables at import time.   *)
(*                                                                         *)
(* Library calls (requests, pandas, geopandas) are modelled by what they   *)
(* do on the values the program hands them.  A missing value (NaN / None)  *)
(* is the empty sequence <<>>, a present number v is <<v>>.  Text that is  *)
(* parsed or cleaned is a sequence of one-character strings.               *)
(***************************************************************************)
EXTENDS Integers, Sequences, FiniteSets, TLC

VARIABLES
    boot,               \* position of the module-level code: "import" | "serving" | "failed"
    raw_freq,           \* rows of state-freq-data.csv as read at line 110
    raw_cost,           \* rows of state-cost-data.csv as read at line 142
    df_states,          \* state table built at line 30
    df_state_lookup,    \* GEOID / State_Abbr lookup built at lines 33-34
    DISASTER_FREQ_DF,   \* table left by lines 122-138
    DISASTER_COST_DF,   \* table left by lines 151-174
    state_fips,         \* value of the state dropdown
    seen,               \* dropdown values of earlier changes
    nChanges,           \* number of dropdown changes so far
    pending,            \* callbacks Dash still has to run for the current change
    pc,                 \* position of display_choropleth: "idle" | "geometry" | "done"
    r,                  \* response of requests.get at line 64
    df,                 \* attribute table after line 76
    tracts,             \* outcome of gpd.read_file at line 80
    gdf,                \* table returned by load_state_data
    cls,                \* what the try/except of lines 91-104 did
    exc,                \* exception that left load_state_data, "none" if it returned
    loadCalls,          \* executions of load_state_data for the current change
    attrReqs,           \* requests.get calls for the current change
    geoReqs,            \* gpd.read_file calls for the current change
    mapFig,             \* output of display_choropleth
    freqFig,            \* output of update_frequency_scatter
    costFig             \* output of update_cost_bar_chart

vars == <<boot, raw_freq, raw_cost, df_states, df_state_lookup, DISASTER_FREQ_DF,
          DISASTER_COST_DF, state_fips, seen, nChanges, pending, pc, r, df, tracts,
          gdf, cls, exc, loadCalls, attrReqs, geoReqs, mapFig, freqFig, costFig>>

tables == <<df_states, df_state_lookup, DISASTER_FREQ_DF, DISASTER_COST_DF>>

loadVars == <<r, df, tracts, gdf, cls, exc, loadCalls, attrReqs, geoReqs, mapFig, pc>>

(***************************************************************************)
(* Bounds of the model.                                                    *)
(***************************************************************************)
MaxChanges == 2
MaxTracts == 3
MaxCsvRows == 2

(***************************************************************************)
(* Missing values and text-to-number conversion.                           *)
(***************************************************************************)
NaN == <<>>

IsNull(x) == x = <<>>

Digits == <<"0", "1", "2", "3", "4", "5", "6", "7", "8", "9">>

IsDigit(c) == \E d \in 1..10 : Digits[d] = c

DigitVal(c) == (CHOOSE d \in 1..10 : Digits[d] = c) - 1

RECURSIVE DigitsVal(_)
DigitsVal(s) ==
    IF s = <<>> THEN 0
    ELSE 10 * DigitsVal(SubSeq(s, 1, Len(s) - 1)) + DigitVal(s[Len(s)])

AllDigits(s) == Len(s) > 0 /\ \A i \in 1..Len(s) : IsDigit(s[i])

\* pd.to_numeric(..., errors="coerce") on one text cell: an optionally signed
\* run of digits is its number, anything else (and None) is NaN.
to_numeric(s) ==
    IF AllDigits(s) THEN <<DigitsVal(s)>>
    ELSE IF Len(s) > 1 /\ s[1] = "-" /\ AllDigits(Tail(s)) THEN <<0 - DigitsVal(Tail(s))>>
    ELSE NaN

(***************************************************************************)
(* State shapefile tables (lines 21-39).                                   *)
(***************************************************************************)
StateRows ==
    { [GEOID |-> "51", STUSPS |-> "VA", NAME |-> "Virginia"],
      [GEOID |-> "24", STUSPS |-> "MD", NAME |-> "Maryland"] }

StateLookup == { [GEOID |-> s.GEOID, State_Abbr |-> s.STUSPS] : s \in StateRows }

state_options == { s.GEOID : s \in StateRows }

(***************************************************************************)
(* load_state_data: the attribute request (lines 59-76).                   *)
(***************************************************************************)
TractCodes == [i \in 1..MaxTracts |-> "00" \o Digits[i + 1]]

RawIncomes == { <<"1">>, <<"2">>, <<"3">>, <<"x">> }

Absent == <<"absent">>

\* The data rows the API can return for a state: at most one row per tract,
\* in tract order, the income cell as the text the API sent.
RECURSIVE ApiRows(_, _, _)
ApiRows(fips, a, i) ==
    IF i > MaxTracts THEN <<>>
    ELSE (IF a[i] = Absent THEN <<>>
          ELSE << [state |-> fips, county |-> "001", tract |-> TractCodes[i],
                   B19013_001E |-> a[i]] >>)
         \o ApiRows(fips, a, i + 1)

ApiTables(fips) ==
    { ApiRows(fips, a, 1) : a \in [1..MaxTracts -> RawIncomes \cup {Absent}] }

NoRows == <<>>

Responses(fips) ==
    { [error |-> TRUE, status_code |-> 0, body |-> "none", rows |-> NoRows] }
    \cup { [error |-> FALSE, status_code |-> s, body |-> "zero_bytes", rows |-> NoRows]
           : s \in {200, 204, 404, 500} }
    \cup { [error |-> FALSE, status_code |-> 200, body |-> b, rows |-> NoRows]
           : b \in {"not_json", "empty_list"} }
    \cup { [error |-> FALSE, status_code |-> 200, body |-> "table", rows |-> t]
           : t \in ApiTables(fips) }

\* r.json() raises when the body is not a JSON document.
JsonRaises(resp) == resp.body \in {"zero_bytes", "not_json"}

\* `not r.json()`: the parsed document is an empty list.
JsonFalsy(resp) == resp.body = "empty_list"

\* Line 66 left out: every response that arrived is read as a table.
FetchOutcomeUnvalidated(resp) ==
    IF resp.error THEN "ConnectionError" ELSE "table"

\* Line 66, evaluated left to right: the status test short-circuits r.json().
FetchOutcome(resp) ==
    IF resp.error THEN "ConnectionError"
    ELSE IF resp.status_code # 200 THEN "empty"
    ELSE IF JsonRaises(resp) THEN "JSONDecodeError"
    ELSE IF JsonFalsy(resp) THEN "empty"
    ELSE "table"

\* Lines 70-76: rename, coerce the income column, synthesize GEOID.
AttributeTable(resp) ==
    [i \in 1..Len(resp.rows) |->
        [GEOID |-> resp.rows[i].state \o resp.rows[i].county \o resp.rows[i].tract,
         Medium_Household_Income |-> to_numeric(resp.rows[i].B19013_001E)]]

(***************************************************************************)
(* load_state_data: geometry download, join, null drop (lines 78-89).      *)
(***************************************************************************)
\* The tract file of a state: the first k tracts of the state, or a failed
\* download / unreadable archive.
TractTable(fips, k) ==
    [i \in 1..k |-> [GEOID |-> fips \o "001" \o TractCodes[i]]]

TractFiles(fips) ==
    { [ok |-> FALSE, rows |-> NoRows] }
    \cup { [ok |-> TRUE, rows |-> TractTable(fips, k)] : k \in 0..MaxTracts }

\* The right rows that match one left row, in right order.
RECURSIVE Matches(_, _, _)
Matches(l, right, j) ==
    IF j > Len(right) THEN <<>>
    ELSE (IF right[j].GEOID = l.GEOID
          THEN << [GEOID |-> l.GEOID,
                   Medium_Household_Income |-> right[j].Medium_Household_Income] >>
          ELSE <<>>)
         \o Matches(l, right, j + 1)

\* tracts.merge(df, on="GEOID", how="inner"): left order, one row per match.
RECURSIVE MergeInnerFrom(_, _, _)
MergeInnerFrom(left, right, i) ==
    IF i > Len(left) THEN <<>>
    ELSE Matches(left[i], right, 1) \o MergeInnerFrom(left, right, i + 1)

\* how="right": every attribute row is kept, matched or not.
MergeRight(left, right) ==
    [j \in 1..Len(right) |->
        [GEOID |-> right[j].GEOID,
         Medium_Household_Income |-> right[j].Medium_Household_Income]]

Merge(left, right) == MergeInnerFrom(left, right, 1)

\* gdf.dropna(subset=['Medium_Household_Income'])
Dropna(t) == SelectSeq(t, LAMBDA row : ~IsNull(row.Medium_Household_Income))

Incomes(t) == [i \in 1..Len(t) |-> t[i].Medium_Household_Income[1]]

(***************************************************************************)
(* pd.qcut(x, q, duplicates="drop", labels=False).                         *)
(* Edges are kept exact by scaling every value by q.                       *)
(***************************************************************************)
Sorted(x) == SortSeq(x, LAMBDA a, b : a < b)

\* q times the k/q quantile of the sorted values s, linear interpolation.
QuantileEdge(s, q, k) ==
    LET pos == (Len(s) - 1) * k
        i == pos \div q
        g == pos % q
    IN  IF g = 0 THEN q * s[i + 1]
        ELSE q * s[i + 1] + (s[i + 2] - s[i + 1]) * g

\* The distinct edges left by duplicates="drop" (an empty population has the
\* single edge NaN, which is no number).
Bins(x, q) ==
    IF x = <<>> THEN {}
    ELSE LET s == Sorted(x) IN { QuantileEdge(s, q, k) : k \in 0..q }

NumBins(x, B) == IF x = <<>> THEN 1 ELSE Cardinality(B)

\* bins.searchsorted(x, side="left"), then include_lowest: ids[x == bins[0]] = 1.
BinId(B, q, v) ==
    IF \A b \in B : q * v <= b THEN 1
    ELSE Cardinality({ b \in B : b < q * v })

\* labels=False: ids - 1, NaN where ids == len(bins) or ids == 0.
qcut(x, q) ==
    LET B == Bins(x, q)
        nb == NumBins(x, B)
    IN  [i \in 1..Len(x) |->
            LET id == BinId(B, q, x[i])
            IN  IF id = nb \/ id = 0 THEN NaN ELSE << id - 1 >>]

(***************************************************************************)
(* Classification with fallback (lines 91-104).                            *)
(***************************************************************************)
\* Series.max(): the largest present value, NaN when none is present.
ColMax(c) ==
    LET present == { c[i][1] : i \in { j \in 1..Len(c) : ~IsNull(c[j]) } }
    IN  IF present = {} THEN NaN
        ELSE << CHOOSE m \in present : \A v \in present : v <= m >>

NotInverted(c) == c

\* gdf["income_class_num"].max() - gdf["income_class_num"]
Invert(c) ==
    LET top == ColMax(c)
    IN  [i \in 1..Len(c) |->
            IF IsNull(top) \/ IsNull(c[i]) THEN NaN
            ELSE << top[1] - c[i][1] >>]

Attempt(x, q) ==
    LET income_class == qcut(x, q)
    IN  [income_class |-> income_class, income_class_num |-> Invert(income_class)]

NoClasses == [income_class |-> <<>>, income_class_num |-> <<>>]

\* The try block alone: no second attempt after a ValueError.
ClassifyNoRetry(x, fault) ==
    IF 9 \notin fault
    THEN [fault |-> fault, attempts |-> <<9>>, raised |-> FALSE, cols |-> Attempt(x, 9)]
    ELSE [fault |-> fault, attempts |-> <<9>>, raised |-> TRUE, cols |-> NoClasses]

\* `fault` holds the bucket counts for which pd.qcut raises ValueError.  The
\* except clause of line 98 runs the 5-bucket attempt outside any try.
Classify(x, fault) ==
    IF 9 \notin fault
    THEN [fault |-> fault, attempts |-> <<9>>, raised |-> FALSE, cols |-> Attempt(x, 9)]
    ELSE IF 5 \notin fault
    THEN [fault |-> fault, attempts |-> <<9, 5>>, raised |-> FALSE, cols |-> Attempt(x, 5)]
    ELSE [fault |-> fault, attempts |-> <<9, 5>>, raised |-> TRUE, cols |-> NoClasses]

NotYetClassified == [fault |-> {}, attempts |-> <<>>, raised |-> FALSE, cols |-> NoClasses]

\* The table of line 106: the joined rows with their two class columns.
Classified(t, c) ==
    [i \in 1..Len(t) |->
        [GEOID |-> t[i].GEOID,
         Medium_Household_Income |-> t[i].Medium_Household_Income[1],
         income_class |-> c.cols.income_class[i],
         income_class_num |-> c.cols.income_class_num[i]]]

(***************************************************************************)
(* display_choropleth after load_state_data returned (lines 254-304).      *)
(***************************************************************************)
DisplayAlwaysFigure(g) == "figure"

DisplayFigure(g) == IF Len(g) = 0 THEN "no_data" ELSE "figure"

(***************************************************************************)
(* Disaster tables built at import (lines 108-174).                        *)
(***************************************************************************)
DisasterTypes ==
    <<"drought", "flooding", "freeze", "severe storm", "tropical cyclone",
      "wildfire", "winter storm">>

\* Columns of the two CSV feeds: the seven categories and one more column
\* that the melt does not list.
CsvColumns == { DisasterTypes[i] : i \in 1..7 } \cup {"wildfier"}

Num(v) == [kind |-> "num", v |-> v]

\* A cell of the frequency feed as read_csv types it, and of the cost feed
\* as the text astype(str) makes of it.
FeedCells ==
    { [freq |-> Num(0 - 1), cost |-> <<"-", "3">>],
      [freq |-> Num(0), cost |-> <<"0">>],
      [freq |-> Num(1), cost |-> <<"7">>],
      [freq |-> Num(2), cost |-> <<"1", ",", "2", "0", "0">>],
      [freq |-> [kind |-> "nan", v |-> 0], cost |-> <<"n", "a", "n">>],
      [freq |-> [kind |-> "text", v |-> 0], cost |-> <<"x">>] }

FeedStates == {"VA", "ZZ"}

FeedRows ==
    { [State_Abbr |-> st, hot |-> h, cell |-> c] :
        st \in FeedStates, h \in {"wildfire", "wildfier"}, c \in FeedCells }

RECURSIVE SeqsUpTo(_, _)
SeqsUpTo(S, n) ==
    IF n = 0 THEN { <<>> }
    ELSE SeqsUpTo(S, n - 1)
         \cup { Append(s, e) : s \in { t \in SeqsUpTo(S, n - 1) : Len(t) = n - 1 }, e \in S }

WideFeeds == SeqsUpTo(FeedRows, MaxCsvRows) \ { <<>> }

\* The feeds of the serving specification: one year of Virginia with a
\* positive, a negative and an unlisted entry, and a state the shapefile
\* does not know.
ServingFeeds ==
    { << [State_Abbr |-> "VA", hot |-> "wildfire", cell |-> [freq |-> Num(2), cost |-> <<"1", ",", "2", "0", "0">>]],
         [State_Abbr |-> "ZZ", hot |-> "wildfire", cell |-> [freq |-> Num(1), cost |-> <<"7">>]] >> }

FreqCsv(w) ==
    [i \in 1..Len(w) |->
        [Year |-> 2020, State_Abbr |-> w[i].State_Abbr,
         cells |-> [c \in CsvColumns |-> IF c = w[i].hot THEN w[i].cell.freq ELSE Num(0)]]]

CostCsv(w) ==
    [i \in 1..Len(w) |->
        [State_Abbr |-> w[i].State_Abbr,
         cells |-> [c \in CsvColumns |-> IF c = w[i].hot THEN w[i].cell.cost ELSE <<"0">>]]]

\* merge(df_state_lookup, on='State_Abbr', how='left'), GEOID renamed State_FIPS.
State_FIPS(abbr, lookup) ==
    IF \E l \in lookup : l.State_Abbr = abbr
    THEN << (CHOOSE l \in lookup : l.State_Abbr = abbr).GEOID >>
    ELSE NaN

\* DataFrame.melt over the seven value_vars: one block of rows per category.
MeltFreq(rows, lookup) ==
    [k \in 1..(7 * Len(rows)) |->
        LET t == DisasterTypes[((k - 1) \div Len(rows)) + 1]
            row == rows[((k - 1) % Len(rows)) + 1]
        IN  [Year |-> row.Year, State_Abbr |-> row.State_Abbr, Disaster_Type |-> t,
             Frequency |-> row.cells[t],
             State_FIPS |-> State_FIPS(row.State_Abbr, lookup)]]

\* `Frequency > 0` on a column that holds text raises TypeError.
FreqRaises(rows, lookup) ==
    \E k \in 1..(7 * Len(rows)) : MeltFreq(rows, lookup)[k].Frequency.kind = "text"

FreqKeepNonNegative(c) == c.kind = "num" /\ c.v >= 0

\* DISASTER_FREQ_DF['Frequency'] > 0 : NaN compares false.
FreqKeep(c) == c.kind = "num" /\ c.v > 0

BuildFreq(rows, lookup) ==
    LET positive == SelectSeq(MeltFreq(rows, lookup), LAMBDA m : FreqKeep(m.Frequency))
        known == SelectSeq(positive, LAMBDA m : ~IsNull(m.State_FIPS))
    IN  [i \in 1..Len(known) |->
            [Year |-> known[i].Year, State_Abbr |-> known[i].State_Abbr,
             Disaster_Type |-> known[i].Disaster_Type,
             Frequency |-> IF known[i].Frequency.kind = "num"
                           THEN << known[i].Frequency.v >> ELSE NaN,
             State_FIPS |-> known[i].State_FIPS]]

\* .astype(str).replace('[,]', '', regex=True).apply(pd.to_numeric, errors='coerce')
CleanCost(text) == to_numeric(SelectSeq(text, LAMBDA c : c # ","))

MeltCost(rows, lookup) ==
    [k \in 1..(7 * Len(rows)) |->
        LET t == DisasterTypes[((k - 1) \div Len(rows)) + 1]
            row == rows[((k - 1) % Len(rows)) + 1]
        IN  [State_Abbr |-> row.State_Abbr, Disaster_Type |-> t,
             Total_Cost_Millions |-> CleanCost(row.cells[t]),
             State_FIPS |-> State_FIPS(row.State_Abbr, lookup)]]

\* DISASTER_COST_DF['Total_Cost_Millions'] > 0, after the dropna.
CostKeep(c) == c[1] > 0

BuildCost(rows, lookup) ==
    LET present == SelectSeq(MeltCost(rows, lookup),
                     LAMBDA m : ~IsNull(m.State_FIPS) /\ ~IsNull(m.Total_Cost_Millions))
    IN  SelectSeq(present, LAMBDA m : CostKeep(m.Total_Cost_Millions))

(***************************************************************************)
(* The state machine.                                                      *)
(***************************************************************************)
Callbacks == {"display_choropleth", "update_frequency_scatter", "update_cost_bar_chart"}

NoResponse == [error |-> FALSE, status_code |-> 0, body |-> "none", rows |-> NoRows]

NoTractFile == [ok |-> FALSE, rows |-> NoRows]

NoFigure == [kind |-> "none", rows |-> NoRows]

Init ==
    /\ boot = "import"
    /\ raw_freq = <<>>
    /\ raw_cost = <<>>
    /\ df_states = {}
    /\ df_state_lookup = {}
    /\ DISASTER_FREQ_DF = <<>>
    /\ DISASTER_COST_DF = <<>>
    /\ state_fips = "51"
    /\ seen = {}
    /\ nChanges = 0
    /\ pending = {}
    /\ pc = "idle"
    /\ r = NoResponse
    /\ df = <<>>
    /\ tracts = NoTractFile
    /\ gdf = <<>>
    /\ cls = NotYetClassified
    /\ exc = "none"
    /\ loadCalls = 0
    /\ attrReqs = 0
    /\ geoReqs = 0
    /\ mapFig = "none"
    /\ freqFig = NoFigure
    /\ costFig = NoFigure

\* The module-level code (lines 21-174), run once at import.
Startup(feeds) ==
    /\ boot = "import"
    /\ \E w \in feeds :
        /\ raw_freq' = FreqCsv(w)
        /\ raw_cost' = CostCsv(w)
        /\ df_states' = StateRows
        /\ df_state_lookup' = StateLookup
        /\ IF FreqRaises(FreqCsv(w), StateLookup)
           THEN /\ boot' = "failed"
                /\ UNCHANGED <<DISASTER_FREQ_DF, DISASTER_COST_DF>>
           ELSE /\ boot' = "serving"
                /\ DISASTER_FREQ_DF' = BuildFreq(FreqCsv(w), StateLookup)
                /\ DISASTER_COST_DF' = BuildCost(CostCsv(w), StateLookup)
    /\ UNCHANGED <<state_fips, seen, nChanges, pending, freqFig, costFig>>
    /\ UNCHANGED loadVars

\* A change of the state dropdown (lines 195-201): Dash runs each of the
\* three callbacks that take it as Input once.
SelectState(limit) ==
    /\ boot = "serving"
    /\ pending = {}
    /\ nChanges < limit
    /\ \E f \in state_options : state_fips' = f
    /\ seen' = IF nChanges = 0 THEN {} ELSE seen \cup {state_fips}
    /\ nChanges' = nChanges + 1
    /\ pending' = Callbacks
    /\ pc' = "idle"
    /\ r' = NoResponse
    /\ df' = <<>>
    /\ tracts' = NoTractFile
    /\ gdf' = <<>>
    /\ cls' = NotYetClassified
    /\ exc' = "none"
    /\ loadCalls' = 0
    /\ attrReqs' = 0
    /\ geoReqs' = 0
    /\ mapFig' = "none"
    /\ freqFig' = NoFigure
    /\ costFig' = NoFigure
    /\ UNCHANGED <<boot, raw_freq, raw_cost>>
    /\ UNCHANGED tables

\* display_choropleth enters load_state_data and issues the attribute
\* request (lines 251-252, 57-76).
AttributeRequest ==
    /\ "display_choropleth" \in pending
    /\ pc = "idle"
    /\ loadCalls' = loadCalls + 1
    /\ attrReqs' = attrReqs + 1
    /\ \E resp \in Responses(state_fips) :
        /\ r' = resp
        /\ IF FetchOutcome(resp) = "table"
           THEN /\ df' = AttributeTable(resp)
                /\ pc' = "geometry"
                /\ UNCHANGED <<exc, mapFig, pending>>
           ELSE IF FetchOutcome(resp) = "empty"
           THEN /\ mapFig' = DisplayFigure(<<>>)
                /\ pc' = "done"
                /\ pending' = pending \ {"display_choropleth"}
                /\ UNCHANGED <<exc, df>>
           ELSE /\ exc' = FetchOutcome(resp)
                /\ mapFig' = "error"
                /\ pc' = "done"
                /\ pending' = pending \ {"display_choropleth"}
                /\ UNCHANGED df
    /\ UNCHANGED <<boot, raw_freq, raw_cost, state_fips, seen, nChanges, tracts, gdf,
                   cls, geoReqs, freqFig, costFig>>
    /\ UNCHANGED tables

\* The tract download, join, null drop and classification, and the rest of
\* display_choropleth (lines 78-106, 254-304).  `faults` are the sets of
\* bucket counts for which pd.qcut may raise ValueError.
TractDownload(faults) ==
    /\ pc = "geometry"
    /\ geoReqs' = geoReqs + 1
    /\ \E tf \in TractFiles(state_fips), fault \in faults :
        /\ tracts' = tf
        /\ IF ~tf.ok
           THEN /\ gdf' = <<>>
                /\ mapFig' = DisplayFigure(<<>>)
                /\ UNCHANGED <<cls, exc>>
           ELSE LET joined == Dropna(Merge(tf.rows, df))
                    c == Classify(Incomes(joined), fault)
                    out == Classified(joined, c)
                IN  /\ cls' = c
                    /\ IF c.raised
                       THEN /\ exc' = "ValueError"
                            /\ mapFig' = "error"
                            /\ UNCHANGED gdf
                       ELSE /\ gdf' = out
                            /\ mapFig' = DisplayFigure(out)
                            /\ UNCHANGED exc
    /\ pc' = "done"
    /\ pending' = pending \ {"display_choropleth"}
    /\ UNCHANGED <<boot, raw_freq, raw_cost, state_fips, seen, nChanges, r, df,
                   loadCalls, attrReqs, freqFig, costFig>>
    /\ UNCHANGED tables

\* update_frequency_scatter (lines 310-342).
update_frequency_scatter ==
    /\ "update_frequency_scatter" \in pending
    /\ freqFig' = [kind |-> "scatter",
                   rows |-> SelectSeq(DISASTER_FREQ_DF,
                                      LAMBDA m : m.State_FIPS = <<state_fips>>)]
    /\ pending' = pending \ {"update_frequency_scatter"}
    /\ UNCHANGED <<boot, raw_freq, raw_cost, state_fips, seen, nChanges, costFig>>
    /\ UNCHANGED loadVars
    /\ UNCHANGED tables

\* Cost_Billion = Total_Cost_Millions / 1000, kept as numerator and denominator.
WithCostBillion(t, fips) ==
    [i \in 1..Len(t) |->
        IF t[i].State_FIPS = <<fips>>
        THEN [State_Abbr |-> t[i].State_Abbr, Disaster_Type |-> t[i].Disaster_Type,
              Total_Cost_Millions |-> t[i].Total_Cost_Millions,
              State_FIPS |-> t[i].State_FIPS,
              Cost_Billion |-> <<t[i].Total_Cost_Millions[1], 1000>>]
        ELSE t[i]]

update_cost_bar_chart_in_place ==
    /\ "update_cost_bar_chart" \in pending
    /\ DISASTER_COST_DF' = WithCostBillion(DISASTER_COST_DF, state_fips)
    /\ costFig' = [kind |-> "bar", rows |-> NoRows]
    /\ pending' = pending \ {"update_cost_bar_chart"}
    /\ UNCHANGED <<boot, raw_freq, raw_cost, state_fips, seen, nChanges, freqFig>>
    /\ UNCHANGED loadVars
    /\ UNCHANGED <<df_states, df_state_lookup, DISASTER_FREQ_DF>>

\* update_cost_bar_chart (lines 348-375): the filtered rows are copied, and
\* the new column is written to the copy.
update_cost_bar_chart ==
    /\ "update_cost_bar_chart" \in pending
    /\ LET df_filtered == SelectSeq(DISASTER_COST_DF,
                                    LAMBDA m : m.State_FIPS = <<state_fips>>)
       IN  costFig' = IF Len(df_filtered) = 0
                      THEN [kind |-> "empty", rows |-> NoRows]
                      ELSE [kind |-> "bar",
                            rows |-> WithCostBillion(df_filtered, state_fips)]
    /\ pending' = pending \ {"update_cost_bar_chart"}
    /\ UNCHANGED <<boot, raw_freq, raw_cost, state_fips, seen, nChanges, freqFig>>
    /\ UNCHANGED loadVars
    /\ UNCHANGED tables

NoFault == { {} }

AnyFault == SUBSET {9, 5}

Next ==
    \/ Startup(ServingFeeds)
    \/ SelectState(MaxChanges)
    \/ AttributeRequest
    \/ TractDownload(NoFault)
    \/ update_frequency_scatter
    \/ update_cost_bar_chart

\* pandas as it behaves: with duplicates="drop" and labels=False, pd.qcut
\* raises ValueError on no numeric population, the empty one included.
Spec == Init /\ [][Next]_vars

NextFault ==
    \/ Startup(ServingFeeds)
    \/ SelectState(1)
    \/ AttributeRequest
    \/ TractDownload(AnyFault)
    \/ update_frequency_scatter
    \/ update_cost_bar_chart

\* One dropdown change of the same program, with ValueError an outcome
\* pd.qcut may produce for either bucket count: the case the except clause
\* of line 98 is written for.
SpecFault == Init /\ [][NextFault]_vars

NextImport == Startup(WideFeeds)

\* The import-time code alone, over every feed content within the bounds.
SpecImport == Init /\ [][NextImport]_vars

(***************************************************************************)
(* Properties.                                                             *)
(***************************************************************************)
\* load_state_data ran to its end through the geometry download and the
\* classification, and returned a table.
Returned == pc = "done" /\ geoReqs = 1 /\ tracts.ok /\ ~cls.raised

GeoKeys == { tracts.rows[i].GEOID : i \in 1..Len(tracts.rows) }

AttrKeys == { df[j].GEOID : j \in 1..Len(df) }

\* Keys of the attribute records whose income is present.
IncomeKeys == { df[j].GEOID : j \in { k \in 1..Len(df) : ~IsNull(df[k].Medium_Household_Income) } }

ResultKeys == { gdf[k].GEOID : k \in 1..Len(gdf) }

\* C1: whenever the attribute response carries a status other than 200 or an
\* empty payload (no bytes, or an empty JSON list), load_state_data returns
\* the empty table without raising and the map shows "no data".
C1_NoDataOnBadStatusOrEmptyPayload ==
    (pc = "done" /\ attrReqs = 1 /\ ~r.error
        /\ (r.status_code # 200 \/ r.body \in {"zero_bytes", "empty_list"}))
    => (exc = "none" /\ Len(gdf) = 0 /\ mapFig = "no_data")

\* C2: whenever the attribute request fails with a network error, or the
\* tract download fails, load_state_data returns the empty table and no
\* exception reaches display_choropleth.
C2_FetchFailuresAreCaught ==
    (pc = "done" /\ (r.error \/ (geoReqs = 1 /\ ~tracts.ok)))
    => (exc = "none" /\ Len(gdf) = 0 /\ mapFig = "no_data")

\* C3: the rows load_state_data returns are exactly the geometry records
\* whose GEOID has an attribute record with a present income, once each and
\* with that income; no other key appears.
C3_JoinKeepsMatchedNonNull ==
    Returned =>
        /\ ResultKeys = GeoKeys \cap IncomeKeys
        /\ Len(gdf) = Cardinality(GeoKeys \cap IncomeKeys)
        /\ \A k \in 1..Len(gdf) :
             \E j \in 1..Len(df) :
                /\ df[j].GEOID = gdf[k].GEOID
                /\ df[j].Medium_Household_Income = << gdf[k].Medium_Household_Income >>

\* Geometry for three tracts, attributes for the first and the third only:
\* two rows are returned and the second tract is absent.
C3_Witness ==
    /\ Returned
    /\ Len(tracts.rows) = 3
    /\ \E a, c \in 1..Len(df) :
         /\ df[a].GEOID = tracts.rows[1].GEOID
         /\ df[c].GEOID = tracts.rows[3].GEOID
         /\ ~IsNull(df[a].Medium_Household_Income)
         /\ ~IsNull(df[c].Medium_Household_Income)
    /\ tracts.rows[2].GEOID \notin AttrKeys
    /\ Len(gdf) = 2
    /\ tracts.rows[2].GEOID \notin ResultKeys

\* C4: in the returned table, whichever bucket count was used, a row of class
\* number 0 has an income at least that of every classified row, the rows of
\* highest income have class number 0, and the class number never increases
\* with income.
C4_ClassZeroIsHighest ==
    Returned =>
        \A i, j \in 1..Len(gdf) :
            (~IsNull(gdf[i].income_class_num) /\ ~IsNull(gdf[j].income_class_num)) =>
                /\ gdf[i].income_class_num = <<0>>
                     => gdf[i].Medium_Household_Income >= gdf[j].Medium_Household_Income
                /\ gdf[i].Medium_Household_Income >= gdf[j].Medium_Household_Income
                     => gdf[i].income_class_num[1] <= gdf[j].income_class_num[1]
                /\ (\A k \in 1..Len(gdf) :
                        gdf[k].Medium_Household_Income <= gdf[i].Medium_Household_Income)
                     => gdf[i].income_class_num = <<0>>

\* The 5-bucket fallback classified three rows, two of them sharing the
\* lowest income so that edges collapsed, and the top row has class number 0.
C4_Witness ==
    /\ Returned
    /\ cls.attempts = <<9, 5>>
    /\ Len(gdf) = 3
    /\ \E i, j, k \in 1..Len(gdf) :
         /\ i # j
         /\ gdf[i].Medium_Household_Income = gdf[j].Medium_Household_Income
         /\ gdf[k].Medium_Household_Income > gdf[i].Medium_Household_Income
         /\ gdf[k].income_class_num = <<0>>
         /\ ~IsNull(gdf[i].income_class_num)
         /\ gdf[i].income_class_num[1] > 0
         /\ gdf[i].income_class_num[1] < 4

\* C5: when the 9-bucket classification raises, exactly one further attempt
\* is made, with 5 buckets; when that raises too, nothing more is tried and
\* ValueError leaves load_state_data.  Without a raise there is one attempt.
C5_RetryOnceThenPropagate ==
    (pc = "done" /\ geoReqs = 1 /\ tracts.ok) =>
        /\ 9 \notin cls.fault => (cls.attempts = <<9>> /\ exc = "none")
        /\ 9 \in cls.fault => cls.attempts = <<9, 5>>
        /\ (9 \in cls.fault /\ 5 \notin cls.fault)
             => (~cls.raised /\ exc = "none" /\ Len(gdf) = Len(cls.cols.income_class))
        /\ (9 \in cls.fault /\ 5 \in cls.fault)
             => (cls.raised /\ exc = "ValueError" /\ mapFig = "error" /\ Len(gdf) = 0)

\* Both attempts raised: 9 then 5 were tried and ValueError propagated.
C5_Witness ==
    /\ pc = "done"
    /\ cls.fault = {9, 5}
    /\ cls.attempts = <<9, 5>>
    /\ exc = "ValueError"
    /\ mapFig = "error"

\* C6: when the tract table and the attribute table share no key, the call
\* ends as a failed fetch does: an empty table is returned, nothing is
\* raised, and display_choropleth returns the "No Data Found" layout.
C6_JoinMismatchShowsNoData ==
    (pc = "done" /\ geoReqs = 1 /\ tracts.ok /\ GeoKeys \cap AttrKeys = {})
    => (exc = "none" /\ Len(gdf) = 0 /\ mapFig = "no_data")

\* Both tables have rows, every attribute row has an income, and no key is
\* shared.
C6_Witness ==
    /\ pc = "done"
    /\ geoReqs = 1
    /\ tracts.ok
    /\ Len(tracts.rows) > 0
    /\ Len(df) > 0
    /\ IncomeKeys = AttrKeys
    /\ GeoKeys \cap AttrKeys = {}
    /\ mapFig = "no_data"

\* C7: when every joined record has the same income, the 9-bucket attempt is
\* followed by the 5-bucket fallback, nothing is raised, and every returned
\* row carries a class.
C7_UniformFallsBackToFive ==
    (pc = "done" /\ geoReqs = 1 /\ tracts.ok /\ GeoKeys \cap IncomeKeys # {}
        /\ \A a, b \in { j \in 1..Len(df) : df[j].GEOID \in GeoKeys \cap IncomeKeys } :
              df[a].Medium_Household_Income = df[b].Medium_Household_Income)
    => /\ exc = "none"
       /\ cls.attempts = <<9, 5>>
       /\ Len(gdf) > 0
       /\ \A k \in 1..Len(gdf) : ~IsNull(gdf[k].income_class_num)

ListedTypes == { DisasterTypes[i] : i \in 1..7 }

\* C8: once the import code has run, every row of DISASTER_FREQ_DF and of
\* DISASTER_COST_DF has a present, strictly positive metric, a present
\* State_FIPS and one of the seven listed categories.
C8_DisasterRowsValid ==
    boot = "serving" =>
        /\ \A i \in 1..Len(DISASTER_FREQ_DF) :
             /\ ~IsNull(DISASTER_FREQ_DF[i].Frequency)
             /\ DISASTER_FREQ_DF[i].Frequency[1] > 0
             /\ ~IsNull(DISASTER_FREQ_DF[i].State_FIPS)
             /\ DISASTER_FREQ_DF[i].Disaster_Type \in ListedTypes
        /\ \A i \in 1..Len(DISASTER_COST_DF) :
             /\ ~IsNull(DISASTER_COST_DF[i].Total_Cost_Millions)
             /\ DISASTER_COST_DF[i].Total_Cost_Millions[1] > 0
             /\ ~IsNull(DISASTER_COST_DF[i].State_FIPS)
             /\ DISASTER_COST_DF[i].Disaster_Type \in ListedTypes

\* The frequency feed held a Virginia row with -1 under "wildfier" and a row
\* with a positive listed entry; the tables were built and are not empty.
C8_Witness ==
    /\ boot = "serving"
    /\ \E i \in 1..Len(raw_freq) :
         /\ raw_freq[i].State_Abbr = "VA"
         /\ raw_freq[i].cells["wildfier"] = Num(0 - 1)
    /\ \E i \in 1..Len(raw_cost) : raw_cost[i].cells["wildfier"] = <<"-", "3">>
    /\ Len(DISASTER_FREQ_DF) > 0
    /\ Len(DISASTER_COST_DF) > 0

\* C9: for each dropdown change load_state_data runs once, issues one
\* attribute request and at most one tract download, the download only after
\* a status-200 table response; nothing is repeated after a failure, and a
\* dropdown value selected before is fetched again in full.
C9_OneFetchPerChange ==
    /\ loadCalls <= 1
    /\ attrReqs = loadCalls
    /\ geoReqs <= attrReqs
    /\ (nChanges > 0 /\ "display_choropleth" \notin pending)
         => (pc = "done" /\ loadCalls = 1 /\ attrReqs = 1)
    /\ geoReqs = 1 => (~r.error /\ r.status_code = 200 /\ r.body = "table")
    /\ (pc = "done" /\ ~r.error /\ r.status_code = 200 /\ r.body = "table") => geoReqs = 1

\* A dropdown value selected before was selected again, and the attribute
\* request and the tract download were both issued again.
C9_Witness ==
    /\ pc = "done"
    /\ state_fips \in seen
    /\ loadCalls = 1
    /\ attrReqs = 1
    /\ geoReqs = 1
    /\ Len(gdf) > 0

\* C10: after import, in every state reached by the callbacks, each
\* module-level table is the table the import code built.
C10_TablesReadOnly ==
    boot = "serving" =>
        /\ df_states = StateRows
        /\ df_state_lookup = StateLookup
        /\ DISASTER_FREQ_DF = BuildFreq(raw_freq, StateLookup)
        /\ DISASTER_COST_DF = BuildCost(raw_cost, StateLookup)

\* All three callbacks of the last change have run: the map was drawn, the
\* scatter was drawn from rows of the frequency table, and the cost callback
\* wrote Cost_Billion into its copy.
C10_Witness ==
    /\ nChanges = MaxChanges
    /\ pending = {}
    /\ mapFig = "figure"
    /\ freqFig.kind = "scatter"
    /\ Len(freqFig.rows) > 0
    /\ costFig.kind = "bar"
    /\ Len(costFig.rows) > 0
    /\ costFig.rows[1].Cost_Billion = << DISASTER_COST_DF[1].Total_Cost_Millions[1], 1000 >>

====
